---- MODULE Spec2Model ----
(***************************************************************************)
(* Model of the two card components:                                       *)
(*   src/src/components/CardImageViewer.tsx  (image load lifecycle)        *)
(*   src/src/components/CardBasicInfo.tsx    (parseManaSymbols,            *)
(*                                            getManaSymbolColor)          *)
(* Strings are sequences of one-character strings; the empty string is     *)
(* the empty sequence.                                                     *)
(***************************************************************************)
EXTENDS Integers, Sequences, FiniteSets, TLC

VARIABLES
    \* ---- CardImageViewer instance ----
    card,         \* the card prop of the last render
    imageError,   \* useState(false), line 31
    imageLoaded,  \* useState(false), line 32
    rendered,     \* the element tree returned by the last render
    pending,      \* sources the host's <img> element is still fetching
    signal,       \* the host signal handled by the last step, if any
    renders,      \* number of times the component body has run
    \* ---- parseManaSymbols call ----
    manaCost,     \* the argument
    pc,           \* position in the function body
    lastIndex,    \* symbolRegex.lastIndex (0-based)
    symbols,      \* the symbols array
    \* ---- getManaSymbolColor call ----
    symbol,       \* the argument
    style         \* the returned value, NotCalled before the call

vars == << card, imageError, imageLoaded, rendered, pending, signal, renders,
           manaCost, pc, lastIndex, symbols, symbol, style >>

viewerVars == << card, imageError, imageLoaded, rendered, pending, signal, renders >>
parserVars == << manaCost, pc, lastIndex, symbols >>
colorVars  == << symbol, style >>

----------------------------------------------------------------------------
(* Bounds *)
NumUrls == 2          \* distinct image URLs
MaxRenders == 4       \* renders of one instance that are explored
MaxLen == 4           \* length of the mana cost strings
MaxSymbolLen == 2     \* length of the symbols drawn from SymbolChars

----------------------------------------------------------------------------
(* JavaScript values *)
Undefined == << "undefined" >>
EmptyString == << >>
Urls == { << "url", i >> : i \in 1..NumUrls }
OptionalString == Urls \cup { EmptyString, Undefined }

\* ToBoolean on an optional string: undefined and "" are falsy
Truthy(v) == v # Undefined /\ v # EmptyString

\* a || b
Or(a, b) == IF Truthy(a) THEN a ELSE b

----------------------------------------------------------------------------
(* CardImageViewer *)

\* The Card records a caller can pass (only the image fields matter here).
\* imageUrls is optional; large and normal are undefined when it is absent.
Cards ==
    { c \in [ hasImageUrls : BOOLEAN, large : OptionalString,
              normal : OptionalString, imageUrl : OptionalString ] :
        ~c.hasImageUrls => (c.large = Undefined /\ c.normal = Undefined) }

\* card.imageUrls?.f
OptChain(c, f) == IF c.hasImageUrls THEN c[f] ELSE Undefined

\* line 35 with the first two candidates swapped
ResolveImageUrlNormalFirst(c) ==
    Or(Or(OptChain(c, "normal"), OptChain(c, "large")), c.imageUrl)

\* line 35: card.imageUrls?.large || card.imageUrls?.normal || card.imageUrl
ResolveImageUrl(c) == Or(Or(OptChain(c, "large"), OptChain(c, "normal")), c.imageUrl)

\* lines 49-110 with the always-rendered <Image> (Render with a broken line 59)
RenderAlwaysImage(c, err, loaded) ==
    [ imageUrl |-> ResolveImageUrl(c),
      fallback |-> err,
      skeleton |-> ~err /\ ~loaded,
      img      |-> TRUE,
      opaque   |-> loaded ]

\* lines 35 and 49-110: what one run of the component body returns
Render(c, err, loaded) ==
    [ imageUrl |-> ResolveImageUrl(c),
      fallback |-> err,                 \* line 59, else branch 93-107
      skeleton |-> ~err /\ ~loaded,     \* lines 59, 62
      img      |-> ~err,                \* lines 59, 72
      opaque   |-> ~err /\ loaded ]     \* line 80

NoSignal == [ kind |-> "none", url |-> Undefined ]

\* getManaSymbolColor has not returned yet
NotCalled == [ type |-> "none", value |-> "" ]

\* The values of a component's variables while no instance or call of it
\* exists (the specifications below run one component at a time)
NoCard == [ hasImageUrls |-> FALSE, large |-> Undefined,
            normal |-> Undefined, imageUrl |-> Undefined ]
ViewerAtRest ==
    [ card |-> NoCard, imageError |-> FALSE, imageLoaded |-> FALSE,
      rendered |-> Render(NoCard, FALSE, FALSE), pending |-> {},
      signal |-> NoSignal, renders |-> 0 ]
ParserAtRest ==
    [ manaCost |-> [ kind |-> "undefined", text |-> EmptyString ],
      pc |-> "idle", lastIndex |-> 0, symbols |-> << >> ]
ColorAtRest == [ symbol |-> EmptyString, style |-> NotCalled ]

\* The load state the instance presents
LoadState ==
    IF imageError THEN "Failed"
    ELSE IF imageLoaded THEN "Loaded"
    ELSE "Loading"

\* The fetches of the <img> element after a render: an unmounted element
\* delivers nothing more; a mounted one starts a fetch when src changed.
PendingAfter(p, old, new) ==
    IF ~new.img THEN {}
    ELSE IF ~old.img \/ old.imageUrl # new.imageUrl THEN p \cup { new.imageUrl }
    ELSE p

InitViewer ==
    /\ card \in Cards
    /\ imageError = FALSE
    /\ imageLoaded = FALSE
    /\ rendered = Render(card, FALSE, FALSE)
    /\ pending = { rendered.imageUrl }
    /\ signal = NoSignal
    /\ renders = 1
    /\ manaCost = ParserAtRest.manaCost
    /\ pc = ParserAtRest.pc
    /\ lastIndex = ParserAtRest.lastIndex
    /\ symbols = ParserAtRest.symbols
    /\ symbol = ColorAtRest.symbol
    /\ style = ColorAtRest.style

\* setState with a changed value re-runs the body; an unchanged one bails out
RerenderWith(c, err, loaded) ==
    /\ renders < MaxRenders
    /\ renders' = renders + 1
    /\ rendered' = Render(c, err, loaded)

\* HandleImageLoad wired to the other setter: setImageError(true)
HandleImageLoadSetsError(u) ==
    /\ rendered.img
    /\ u \in pending
    /\ signal' = [ kind |-> "load", url |-> u ]
    /\ imageError' = TRUE
    /\ IF imageError
         THEN UNCHANGED << rendered, renders >>
         ELSE RerenderWith(card, TRUE, imageLoaded)
    /\ pending' = PendingAfter(pending \ {u}, rendered, rendered')
    /\ UNCHANGED << card, imageLoaded >>

\* lines 45-47, called by the <img> element for the fetch of u
HandleImageLoad(u) ==
    /\ rendered.img
    /\ u \in pending
    /\ signal' = [ kind |-> "load", url |-> u ]
    /\ imageLoaded' = TRUE
    /\ IF imageLoaded
         THEN UNCHANGED << rendered, renders >>
         ELSE RerenderWith(card, imageError, TRUE)
    /\ pending' = PendingAfter(pending \ {u}, rendered, rendered')
    /\ UNCHANGED << card, imageError >>

\* lines 41-43, called by the <img> element for the fetch of u
HandleImageError(u) ==
    /\ rendered.img
    /\ u \in pending
    /\ signal' = [ kind |-> "error", url |-> u ]
    /\ imageError' = TRUE
    /\ IF imageError
         THEN UNCHANGED << rendered, renders >>
         ELSE RerenderWith(card, TRUE, imageLoaded)
    /\ pending' = PendingAfter(pending \ {u}, rendered, rendered')
    /\ UNCHANGED << card, imageLoaded >>

\* The host drops the fetch of a source the element no longer shows
HostCancel(u) ==
    /\ u \in pending
    /\ u # rendered.imageUrl
    /\ pending' = pending \ {u}
    /\ signal' = NoSignal
    /\ UNCHANGED << card, imageError, imageLoaded, rendered, renders >>

\* SetCard that also resets the two flags (a reset keyed on the card)
SetCardReset(c) ==
    /\ c # card
    /\ card' = c
    /\ imageError' = FALSE
    /\ imageLoaded' = FALSE
    /\ RerenderWith(c, FALSE, FALSE)
    /\ pending' = PendingAfter(pending, rendered, rendered')
    /\ signal' = NoSignal

\* The parent renders the instance with another card: the body runs with
\* the state kept by useState (lines 31-32 initialise on mount only)
SetCard(c) ==
    /\ c # card
    /\ card' = c
    /\ RerenderWith(c, imageError, imageLoaded)
    /\ pending' = PendingAfter(pending, rendered, rendered')
    /\ signal' = NoSignal
    /\ UNCHANGED << imageError, imageLoaded >>

\* The parent renders the instance again with the same card
Rerender ==
    /\ RerenderWith(card, imageError, imageLoaded)
    /\ pending' = PendingAfter(pending, rendered, rendered')
    /\ signal' = NoSignal
    /\ UNCHANGED << card, imageError, imageLoaded >>

NextViewer ==
    \/ \E u \in OptionalString : HandleImageLoad(u)
    \/ \E u \in OptionalString : HandleImageError(u)
    \/ \E u \in OptionalString : HostCancel(u)
    \/ \E c \in Cards : SetCard(c)
    \/ Rerender

----------------------------------------------------------------------------
(* parseManaSymbols, CardBasicInfo.tsx lines 16-27 *)

ParseChars == { "{", "}", "R", "2" }
Strings(chars, n) == UNION { [1..k -> chars] : k \in 0..n }

\* The values a caller can pass: a string, or null / undefined (card.manaCost
\* is not checked at run time)
ManaCosts ==
    { [ kind |-> "string", text |-> t ] : t \in Strings(ParseChars, MaxLen) }
      \cup { [ kind |-> "null", text |-> EmptyString ],
             [ kind |-> "undefined", text |-> EmptyString ] }

\* !manaCost (line 17)
Falsy(m) == m.kind # "string" \/ m.text = EmptyString

Min(S) == CHOOSE x \in S : \A y \in S : x <= y

\* The position of the first "}" after position i (1-based), 0 when none
FirstClose(s, i) ==
    LET closes == { j \in (i+1)..Len(s) : s[j] = "}" }
    IN IF closes = {} THEN 0 ELSE Min(closes)

\* /\{([^}]+)\}/ matches at position i: "{", then the greedy run of
\* characters other than "}" (at least one), then "}"
MatchesAt(s, i) == s[i] = "{" /\ FirstClose(s, i) > i + 1

\* symbolRegex.exec(s) with the g flag: the leftmost match that starts at
\* or after lastIndex; lastIndex moves past the match, or to 0 on failure
RegExpExec(s, li) ==
    LET starts == { i \in (li+1)..Len(s) : MatchesAt(s, i) }
    IN IF starts = {}
         THEN [ found |-> FALSE, group |-> EmptyString, lastIndex |-> 0 ]
         ELSE LET i == Min(starts)
                  j == FirstClose(s, i)
              IN [ found |-> TRUE, group |-> SubSeq(s, i+1, j-1), lastIndex |-> j ]

InitParser ==
    /\ manaCost \in ManaCosts
    /\ pc = "start"
    /\ lastIndex = 0
    /\ symbols = << >>
    /\ card = ViewerAtRest.card
    /\ imageError = ViewerAtRest.imageError
    /\ imageLoaded = ViewerAtRest.imageLoaded
    /\ rendered = ViewerAtRest.rendered
    /\ pending = ViewerAtRest.pending
    /\ signal = ViewerAtRest.signal
    /\ renders = ViewerAtRest.renders
    /\ symbol = ColorAtRest.symbol
    /\ style = ColorAtRest.style

\* line 17: if (!manaCost) return [];
ParseEmpty ==
    /\ pc = "start"
    /\ Falsy(manaCost)
    /\ pc' = "done"
    /\ symbols' = << >>
    /\ UNCHANGED << manaCost, lastIndex >>

\* lines 18-20
ParseBegin ==
    /\ pc = "start"
    /\ ~Falsy(manaCost)
    /\ pc' = "loop"
    /\ lastIndex' = 0
    /\ symbols' = << >>
    /\ UNCHANGED manaCost

\* lines 22-23: one iteration of the loop with a match
ParseMatch ==
    /\ pc = "loop"
    /\ LET match == RegExpExec(manaCost.text, lastIndex)
       IN /\ match.found
          /\ symbols' = Append(symbols, match.group)
          /\ lastIndex' = match.lastIndex
    /\ UNCHANGED << manaCost, pc >>

\* The loop test written as !== undefined: exec returns null, the body runs
\* and match[1] throws
ParseReturnThrows ==
    /\ pc = "loop"
    /\ LET match == RegExpExec(manaCost.text, lastIndex)
       IN /\ ~match.found
          /\ lastIndex' = match.lastIndex
    /\ pc' = "error"
    /\ UNCHANGED << manaCost, symbols >>

\* lines 22 and 26: exec returns null, the loop ends, symbols is returned
ParseReturn ==
    /\ pc = "loop"
    /\ LET match == RegExpExec(manaCost.text, lastIndex)
       IN /\ ~match.found
          /\ lastIndex' = match.lastIndex
    /\ pc' = "done"
    /\ UNCHANGED << manaCost, symbols >>

NextParser == ParseEmpty \/ ParseBegin \/ ParseMatch \/ ParseReturn

----------------------------------------------------------------------------
(* getManaSymbolColor, CardBasicInfo.tsx lines 48-65 *)

SymbolChars == { "W", "U", "B", "R", "G", "C", "X", "P", "0", "7", "/" }
Digits == { "0", "7" }

\* Names every object inherits from Object.prototype
constructorKey == << "c", "o", "n", "s", "t", "r", "u", "c", "t", "o", "r" >>
toStringKey == << "t", "o", "S", "t", "r", "i", "n", "g" >>
ObjectPrototypeKeys == { constructorKey, toStringKey }

SymbolTokens == Strings(SymbolChars, MaxSymbolLen) \cup ObjectPrototypeKeys

StyleString(v) == [ type |-> "string", value |-> v ]
InheritedFunction == [ type |-> "function", value |-> "Object.prototype" ]
UndefinedValue == [ type |-> "undefined", value |-> "" ]

\* lines 49-56
colorMap ==
    ( << "W" >> :> StyleString("bg-yellow-50 text-yellow-800 border-yellow-300") )
 @@ ( << "U" >> :> StyleString("bg-blue-100 text-blue-800 border-blue-300") )
 @@ ( << "B" >> :> StyleString("bg-gray-800 text-white border-gray-900") )
 @@ ( << "R" >> :> StyleString("bg-red-100 text-red-800 border-red-300") )
 @@ ( << "G" >> :> StyleString("bg-green-100 text-green-800 border-green-300") )
 @@ ( << "C" >> :> StyleString("bg-gray-300 text-gray-700 border-gray-400") )

\* lines 60 and 64: the style of generic mana and of unknown symbols
DefaultStyle == StyleString("bg-gray-200 text-gray-700 border-gray-300")

\* /^\d+$/.test(symbol), line 59
IsDigits(t) == Len(t) >= 1 /\ \A i \in 1..Len(t) : t[i] \in Digits

\* colorMap[symbol] on an object literal: own properties, then the ones
\* inherited from Object.prototype, else undefined
PropertyGet(t) ==
    IF t \in DOMAIN colorMap THEN colorMap[t]
    ELSE IF t \in ObjectPrototypeKeys THEN InheritedFunction
    ELSE UndefinedValue

\* lines 58-64
getManaSymbolColor(t) ==
    IF IsDigits(t) THEN DefaultStyle
    ELSE IF PropertyGet(t) # UndefinedValue THEN PropertyGet(t)
    ELSE DefaultStyle

InitColor ==
    /\ symbol \in SymbolTokens
    /\ style = NotCalled
    /\ card = ViewerAtRest.card
    /\ imageError = ViewerAtRest.imageError
    /\ imageLoaded = ViewerAtRest.imageLoaded
    /\ rendered = ViewerAtRest.rendered
    /\ pending = ViewerAtRest.pending
    /\ signal = ViewerAtRest.signal
    /\ renders = ViewerAtRest.renders
    /\ manaCost = ParserAtRest.manaCost
    /\ pc = ParserAtRest.pc
    /\ lastIndex = ParserAtRest.lastIndex
    /\ symbols = ParserAtRest.symbols

\* One call of getManaSymbolColor(symbol), as made at line 105
CallGetManaSymbolColor ==
    /\ style = NotCalled
    /\ style' = getManaSymbolColor(symbol)
    /\ UNCHANGED symbol

NextColor == CallGetManaSymbolColor

----------------------------------------------------------------------------
(* Specifications: each component on its own, the others at rest *)

SpecViewer ==
    /\ InitViewer
    /\ [][NextViewer /\ UNCHANGED << parserVars, colorVars >>]_vars

SpecParser ==
    /\ InitParser
    /\ [][NextParser /\ UNCHANGED << viewerVars, colorVars >>]_vars

\* The call runs to completion: the loop is not preempted for ever
FairSpecParser ==
    /\ SpecParser
    /\ WF_vars(NextParser /\ UNCHANGED << viewerVars, colorVars >>)

SpecColor ==
    /\ InitColor
    /\ [][NextColor /\ UNCHANGED << viewerVars, parserVars >>]_vars

----------------------------------------------------------------------------
(* Properties of the image load lifecycle (SpecViewer) *)

SourceChanged == rendered'.imageUrl # rendered.imageUrl
SignalHandled == signal'.kind # "none"

\* C1: whenever the resolved image source changes to a different value, the
\* load state is reset to Loading (neither loaded nor failed).
C1_SourceChangeResets ==
    [][ SourceChanged => (~imageError' /\ ~imageLoaded') ]_vars

\* C2: Loaded and Failed are terminal for a source: the only step that
\* leaves either is a source change, which enters Loading; the instance is
\* never marked loaded and failed at once.
C2_TerminalStates ==
    /\ [][ (LoadState \in {"Loaded", "Failed"} /\ LoadState' # LoadState)
             => (SourceChanged /\ LoadState' = "Loading") ]_vars
    /\ [](~(imageError /\ imageLoaded))

\* C3: a load or error signal issued for a source that has since been
\* replaced never changes the load state.
C3_StaleSignalIgnored ==
    [][ (SignalHandled /\ signal'.url # rendered.imageUrl)
          => (imageError' = imageError /\ imageLoaded' = imageLoaded) ]_vars

\* C4: a newly mounted instance is Loading; a load signal handled while
\* Loading gives Loaded; a render with the same source and no signal keeps
\* Loaded.
C4_LoadedAndStays ==
    /\ [](renders = 1 => LoadState = "Loading")
    /\ [][ (LoadState = "Loading" /\ signal'.kind = "load")
             => LoadState' = "Loaded" ]_vars
    /\ [][ (LoadState = "Loaded" /\ ~SignalHandled /\ ~SourceChanged)
             => LoadState' = "Loaded" ]_vars

\* Loaded, and rendered again since the load signal
C4_Witness ==
    /\ LoadState = "Loaded"
    /\ signal = NoSignal
    /\ renders >= 3
    /\ rendered.opaque

\* C5: an error signal handled while Loading gives Failed with the fallback
\* in place of the image element; while Failed the image element is not
\* rendered, no fetch is outstanding and no signal is handled.
C5_FailedShowsFallback ==
    /\ [][ (LoadState = "Loading" /\ signal'.kind = "error")
             => (LoadState' = "Failed" /\ rendered'.fallback /\ ~rendered'.img) ]_vars
    /\ [](imageError => (rendered.fallback /\ ~rendered.img /\ pending = {}))
    /\ [][ imageError => (~SignalHandled /\ pending' = {}) ]_vars

\* Failed, and rendered again since the error signal
C5_Witness ==
    /\ LoadState = "Failed"
    /\ ~imageLoaded
    /\ signal = NoSignal
    /\ rendered.fallback

\* The candidates in preference order, and the first non-empty one
Candidates(c) == << OptChain(c, "large"), OptChain(c, "normal"), c.imageUrl >>
HasCandidate(c) == \E i \in 1..3 : Truthy(Candidates(c)[i])
FirstCandidate(c) ==
    Candidates(c)[ CHOOSE i \in 1..3 :
                     /\ Truthy(Candidates(c)[i])
                     /\ \A k \in 1..(i-1) : ~Truthy(Candidates(c)[k]) ]
SourceIsFirstCandidate ==
    HasCandidate(card) => rendered.imageUrl = FirstCandidate(card)

\* C9 as stated: the source is the first non-empty candidate; the resolution
\* runs once per change of the card and not on the other renders; a render
\* with an unchanged card keeps the resolved source.
C9_ResolvedOncePerChange ==
    /\ [] SourceIsFirstCandidate
    /\ [][ renders' # renders => card' # card ]_vars
    /\ [][ card' = card => ~SourceChanged ]_vars

\* C9 amended: the source is the first non-empty candidate; the resolution
\* runs on every render; a render with an unchanged card keeps the resolved
\* source.
C9_ResolvedEveryRender ==
    /\ [] SourceIsFirstCandidate
    /\ [][ (renders' # renders /\ HasCandidate(card'))
             => rendered'.imageUrl = FirstCandidate(card') ]_vars
    /\ [][ card' = card => ~SourceChanged ]_vars

\* Rendered again with a card whose large URL is empty and normal URL is not
C9_Witness ==
    /\ renders >= 2
    /\ card.hasImageUrls
    /\ ~Truthy(card.large)
    /\ Truthy(card.normal)
    /\ rendered.imageUrl = card.normal
    /\ rendered.img

\* C10: neither flag goes from true back to false; once the fallback is
\* displayed it stays displayed; the placeholder is not displayed after a
\* load signal.
C10_FlagsMonotone ==
    [][ /\ imageError => imageError'
        /\ imageLoaded => imageLoaded'
        /\ rendered.fallback => rendered'.fallback
        /\ imageLoaded => ~rendered'.skeleton ]_vars

\* Loaded under an earlier source, and the current source still being fetched
C10_Witness ==
    /\ imageLoaded
    /\ ~imageError
    /\ signal = NoSignal
    /\ rendered.imageUrl \in pending
    /\ ~rendered.skeleton

----------------------------------------------------------------------------
(* Properties of parseManaSymbols (SpecParser, FairSpecParser) *)

Braces == { "{", "}" }

\* Position i opens a brace pair whose enclosed text is non-empty and has
\* no brace; PairClose is the position of its "}"
OpensPair(s, i) ==
    /\ s[i] = "{"
    /\ \E j \in (i+2)..Len(s) :
         s[j] = "}" /\ \A k \in (i+1)..(j-1) : s[k] \notin Braces
PairClose(s, i) ==
    CHOOSE j \in (i+2)..Len(s) :
        s[j] = "}" /\ \A k \in (i+1)..(j-1) : s[k] \notin Braces

RECURSIVE BracePairContents(_, _)
BracePairContents(s, i) ==
    IF i > Len(s) THEN << >>
    ELSE IF OpensPair(s, i)
      THEN << SubSeq(s, i+1, PairClose(s, i) - 1) >>
             \o BracePairContents(s, PairClose(s, i) + 1)
      ELSE BracePairContents(s, i + 1)

\* C6: the result is exactly the contents of the brace pairs whose enclosed
\* text has no further brace, in order; nothing else contributes a token or
\* a part of one.
C6_ExactlyBracePairs ==
    pc = "done" => symbols = BracePairContents(manaCost.text, 1)

\* C7: the call terminates without an error for every input, and returns
\* the empty sequence for empty or absent input.
C7_Total ==
    /\ <>(pc = "done")
    /\ [](pc # "error")
    /\ []((pc = "done" /\ Falsy(manaCost)) => symbols = << >>)

\* Returned from an input with a "{" that is never closed, after a match
C7_Witness ==
    /\ pc = "done"
    /\ manaCost.kind = "string"
    /\ symbols # << >>
    /\ \E i \in 1..Len(manaCost.text) :
         manaCost.text[i] = "{" /\ FirstClose(manaCost.text, i) = 0

----------------------------------------------------------------------------
(* Properties of getManaSymbolColor (SpecColor) *)

FiveColors == { << "W" >>, << "U" >>, << "B" >>, << "R" >>, << "G" >> }

\* C8: every token gets a style string; digits get the numeric style; W, U,
\* B, R, G get five pairwise distinct styles of their own; every other token
\* gets the default style.
C8_Classified ==
    style # NotCalled =>
        /\ style.type = "string"
        /\ IsDigits(symbol) => style = DefaultStyle
        /\ symbol \in FiveColors =>
             /\ style = colorMap[symbol]
             /\ style # DefaultStyle
             /\ \A other \in FiveColors \ {symbol} : colorMap[other] # style
        /\ (~IsDigits(symbol) /\ symbol \notin FiveColors) => style = DefaultStyle

====
